---- MODULE Spec2Model ----
(***************************************************************************)
(* rails-source-maps (lib/rails_source_maps.js, version 0.1.3).            *)
(*                                                                         *)
(* The model follows one invocation of run(): the directory check, the     *)
(* glob, the async.queue that feeds enqueue() with the fingerprinted       *)
(* files, and processNonHashedFiles() started from the queue's drain.      *)
(* A second invocation on the file system the first one left is modelled   *)
(* by Rerun.                                                               *)
(*                                                                         *)
(* Paths are sequences of tokens, so that the string operations of the     *)
(* code (replace(/\.js$/, ...), replace('.orig', ''), match(/\.orig\.js$/))*)
(* are computed on the path text and not assumed to be inverses.           *)
(* File contents are abstract: a source text, and what was made of it.     *)
(***************************************************************************)
EXTENDS Integers, Sequences, FiniteSets, TLC

\* Bound of one explored scenario: asset files present, I/O failures that
\* may be injected, and departures of the command line from "rails-source-maps ."
MaxLoad == 4

----------------------------------------------------------------------------
\* Path text

DirTok  == <<"v", 0>>
OrigTok == <<".orig", 0>>
JsTok   == <<".js", 0>>
MapTok  == <<".map", 0>>
GzTok   == <<".gz", 0>>
RootTok == <<"/", 0>>
PublicTok == <<"public/", 0>>

\* program.args[0].replace(/\/$/, '') + '/': the project root "." and an
\* absolute one
DotRoot == <<"./", 0>>
AbsRoot == <<"/srv/app/", 0>>

\* self.assetsPath = <root> + '/public/' + rails_asset_folder; the paths of
\* the model are written from the folder on (DirTok)
AssetsPath(root) == <<root, PublicTok>>

\* "v/<name with a 32 hex digit digest>.js"
HashedPath(i) == <<DirTok, <<"/h", i>>, JsTok>>
\* "v.orig/<name with a 32 hex digit digest>.js": a fingerprinted file in a
\* directory whose name contains ".orig"
HashedInOrigDir == <<DirTok, OrigTok, <<"/h", 1>>, JsTok>>
\* "v/<plain name>.js"
NonHashedPath(j) == <<DirTok, <<"/n", j>>, JsTok>>

EndsWith(p, suffix) ==
    /\ Len(p) >= Len(suffix)
    /\ SubSeq(p, Len(p) - Len(suffix) + 1, Len(p)) = suffix

\* file.match(/\.js$/) && !file.match(/\.orig\.js$/)
IsJsFile(p) == EndsWith(p, <<JsTok>>) /\ ~EndsWith(p, <<OrigTok, JsTok>>)

\* /[0-9a-f]{32}/.test(file)
HasDigest(p) == \E k \in 1..Len(p) : p[k][1] = "/h"

\* jsfile.replace(/\.js$/, repl)
ReplaceJsSuffix(p, repl) ==
    IF EndsWith(p, <<JsTok>>) THEN SubSeq(p, 1, Len(p) - 1) \o repl ELSE p

OriginalOf(p)  == ReplaceJsSuffix(p, <<OrigTok, JsTok>>)
SourcemapOf(p) == ReplaceJsSuffix(p, <<JsTok, MapTok>>)
GzippedOf(p)   == ReplaceJsSuffix(p, <<JsTok, GzTok>>)

\* index of the first occurrence of pat in p, 0 when there is none
FirstIndex(p, pat) ==
    LET hits == {k \in 1..(Len(p) - Len(pat) + 1) : SubSeq(p, k, k + Len(pat) - 1) = pat}
    IN  IF hits = {} THEN 0 ELSE CHOOSE k \in hits : \A m \in hits : k <= m

\* String.prototype.replace(pat, repl) with a string pattern: the first
\* occurrence only
ReplaceFirst(p, pat, repl) ==
    LET k == FirstIndex(p, pat)
    IN  IF k = 0 THEN p
        ELSE SubSeq(p, 1, k - 1) \o repl \o SubSeq(p, k + Len(pat), Len(p))

\* sourceOrig.replace('.orig', '')
CopySourceOf(sourceOrig) == ReplaceFirst(sourceOrig, <<OrigTok>>, <<>>)
\* sourceOrig.replace('.orig.js', '.js.gz')
GzipSourceOf(sourceOrig) == ReplaceFirst(sourceOrig, <<OrigTok, JsTok>>, <<JsTok, GzTok>>)

\* sourcemap.replace(/^((\.\/)?public\/)?/, '/')
SourceMapUrl(jsfile) ==
    LET sm == SourcemapOf(jsfile)
        n  == IF Len(sm) >= 2 /\ sm[1] = DotRoot /\ sm[2] = PublicTok THEN 2
              ELSE IF Len(sm) >= 1 /\ sm[1] = PublicTok THEN 1
              ELSE 0
    IN  <<RootTok>> \o SubSeq(sm, n + 1, Len(sm))

\* what glob() lists: the paths in sorted order ('.' sorts before '/', and
\* ".js" < ".js.gz" < ".js.map" < ".orig.js")
AssetsSorted ==
    <<HashedInOrigDir>> \o [i \in 1..MaxLoad |-> HashedPath(i)]
                        \o [j \in 1..MaxLoad |-> NonHashedPath(j)]

ArtifactsOf(a) == <<a, GzippedOf(a), SourcemapOf(a), OriginalOf(a)>>

RECURSIVE Flatten(_)
Flatten(ss) == IF ss = <<>> THEN <<>> ELSE Head(ss) \o Flatten(Tail(ss))

PathsSorted == Flatten([k \in 1..Len(AssetsSorted) |-> ArtifactsOf(AssetsSorted[k])])

Range(s) == {s[k] : k \in 1..Len(s)}

----------------------------------------------------------------------------
\* File contents

NoUrl == <<>>

Raw(s)         == [src |-> s, form |-> "raw", url |-> NoUrl]
\* uglified code with its paths rewritten, then sourceMapPrefix + url
Minified(s, u) == [src |-> s, form |-> "min", url |-> u]
SourceMap(s, u) == [src |-> s, form |-> "map", url |-> u]
\* what a failed write or copy may leave behind
Truncated      == [src |-> "", form |-> "cut", url |-> NoUrl]
\* what zlib.createGzip() makes of content c
Gzipped(c)     == [src |-> c.src, form |-> "gz", url |-> c.url]

\* "A", "B": JavaScript that parses.  "X": text uglify cannot parse.
\* "M": JavaScript that already holds "\n//# sourceMappingURL=".
HashedSources    == {"A", "X", "M"}
NonHashedSources == {"A", "B", "M"}

Parses(c) == c.form = "raw" /\ c.src # "X"

\* whether uglify.minify accepts the text: a file cut short may be empty,
\* which parses, or end in the middle of a statement, which does not
ParseOutcomes(c) == IF c.form = "cut" THEN {TRUE, FALSE} ELSE {Parses(c)}

\* contents.toString().indexOf(self.sourceMapPrefix) >= 0
ContainsPrefix(c) == c.form = "min" \/ (c.form = "raw" /\ c.src = "M")

----------------------------------------------------------------------------
\* Module level configuration.  The three variables are read from the
\* commander object when the module is loaded, before main() declares and
\* parses the options, so that every option is still undefined.

Undefined == "undefined"

ProgramAtLoad == [threads |-> Undefined, gzip |-> Undefined]

DefaultThreads == 3

\* var threads = program.threads || 3;  var gzip = program.gzip;  (gzip is
\* used as a truth value only)
ModuleLoaded ==
    [threads |-> IF ProgramAtLoad.threads # Undefined
                 THEN ProgramAtLoad.threads ELSE DefaultThreads,
     gzip    |-> ProgramAtLoad.gzip # Undefined]

\* what main()'s program.parse(process.argv) leaves in the commander object:
\* '-t, --threads [threads]' has no default; '-Z, --no-gzip' makes
\* program.gzip true unless the flag is given
\* commander hands an option's value over as the string that was typed
ThreadsOptions == {Undefined, "1"}

\* the number a comparison such as workers < q.concurrency makes of it
ToNumber(v) == CASE v = "1" -> 1 [] v = "2" -> 2 [] v = "3" -> 3
Roots          == {DotRoot, AbsRoot}

Parsed(root, t, z) == [root |-> root, threads |-> t, gzip |-> ~z]

----------------------------------------------------------------------------
\* State

VARIABLES
    fs,              \* the files under the assets path: path -> content
    fs0,             \* fs when the current invocation started
    driver,          \* where run() is: "stat", "glob", "pushed", "help", "globerr"
    hashedFiles,     \* self.hashedFiles
    nonHashedFiles,  \* self.nonHashedFiles
    tasks,           \* the queue's waiting tasks
    workers,         \* the queue's count of running workers
    immediates,      \* q.process calls scheduled by push() and not yet run
    pipe,            \* per fingerprinted file: where its enqueue() is
    drains,          \* how many times onQueueDrain was invoked
    rec,             \* processNonHashedFiles: its position and locals
    thrown,          \* the uncaught exception that ended the process, if any
    budget,          \* I/O failures that may still be injected
    rerun,           \* whether this is the second invocation
    prevClean,       \* in the second invocation: the first one had no failure
    ops,             \* the file operations performed by this invocation
    program,         \* the commander object after main() parsed the command line
    loaded           \* the module level variables threads and gzip

vars == <<fs, fs0, driver, hashedFiles, nonHashedFiles, tasks, workers, immediates,
          pipe, drains, rec, thrown, budget, rerun, prevClean, ops, program, loaded>>

queueVars == <<tasks, workers, drains>>
runVars   == <<fs0, rerun, prevClean, program, loaded>>
foundVars == <<hashedFiles, nonHashedFiles>>

\* the values the code works with
threads == loaded.threads
gzip    == loaded.gzip

\* the path strings the code holds: glob answers with the pattern's prefix
FullPath(p) == AssetsPath(program.root) \o p

NoError == [kind |-> "", file |-> <<>>]
Alive   == thrown = NoError
CanFail == budget > 0

NoFiles == [p \in {} |-> p]

Put(f, path, content) ==
    [p \in DOMAIN f \cup {path} |-> IF p = path THEN content ELSE f[p]]

\* an unlink in the place of the rename: the source path is gone and
\* nothing appears at the destination
RenameDropsFile(f, from, to) == [p \in DOMAIN f \ {from} |-> f[p]]

\* fs.rename: the destination is replaced, the source path is gone
Rename(f, from, to) ==
    [p \in (DOMAIN f \ {from}) \cup {to} |-> IF p = to THEN f[from] ELSE f[p]]

NewPipe == [pc |-> "queued", pending |-> {}, code |-> FALSE, map |-> FALSE,
            cb |-> FALSE, calls |-> 0, src |-> ""]

IdleRec == [pc |-> "idle", toRead |-> {}, hash |-> NoFiles, idx |-> 0,
            sourceOrig |-> <<>>]

\* var originalFileContentHash = {}; glob(self.assetsPath + "/**/*.orig.js", cb)
StartReconciler == [IdleRec EXCEPT !.pc = "glob"]

\* the input of a scenario: the command line, and which asset files exist
\* and what they hold
Scenario ==
    \E nh \in 0..MaxLoad, nn \in 0..MaxLoad, od \in 0..1, b \in 0..MaxLoad,
       root \in Roots, t \in ThreadsOptions, z \in BOOLEAN :
      /\ nh + nn + od + b + (IF root = DotRoot THEN 0 ELSE 1)
            + (IF t = Undefined THEN 0 ELSE 1) + (IF z THEN 1 ELSE 0) <= MaxLoad
      /\ program = Parsed(root, t, z)
      /\ LET H == {HashedPath(i) : i \in 1..nh}
                    \cup (IF od = 1 THEN {HashedInOrigDir} ELSE {})
             N == {NonHashedPath(j) : j \in 1..nn}
         IN  \E ch \in [H -> HashedSources], cn \in [N -> NonHashedSources] :
               fs = [p \in H \cup N |-> Raw(IF p \in H THEN ch[p] ELSE cn[p])]
      /\ budget = b
      /\ fs0 = fs
      /\ driver = "stat"
      /\ hashedFiles = <<>>
      /\ nonHashedFiles = <<>>
      /\ tasks = <<>>
      /\ workers = 0
      /\ immediates = 0
      /\ pipe = NoFiles
      /\ drains = 0
      /\ rec = IdleRec
      /\ thrown = NoError
      /\ rerun = FALSE
      /\ prevClean = FALSE
      /\ ops = {}

Init == Scenario /\ loaded = ModuleLoaded

----------------------------------------------------------------------------
\* run()

\* fs.stat(self.assetsPath, ...): an error or a path that is no directory
\* ends in program.help(); a path with files under it is a directory
StatDone ==
    /\ Alive
    /\ driver = "stat"
    /\ \/ /\ driver' = "glob"
          /\ UNCHANGED budget
       \/ /\ DOMAIN fs = {}
          /\ driver' = "help"
          /\ UNCHANGED budget
       \/ /\ CanFail
          /\ budget' = budget - 1
          /\ driver' = "help"
    /\ UNCHANGED <<fs, foundVars, queueVars, immediates, pipe, rec, thrown, runVars, ops>>

\* glob(self.assetsPath + "/**/*.js", ...)
GlobList == SelectSeq(PathsSorted, LAMBDA p : p \in DOMAIN fs /\ EndsWith(p, <<JsTok>>))

JsFiles == SelectSeq(GlobList, IsJsFile)

\* the glob callback: classify, then push every fingerprinted file; each
\* push schedules one q.process
GlobDone ==
    /\ Alive
    /\ driver = "glob"
    /\ \/ /\ CanFail
          /\ budget' = budget - 1
          /\ driver' = "globerr"
          /\ UNCHANGED <<foundVars, tasks, immediates, pipe>>
       \/ /\ driver' = "pushed"
          /\ hashedFiles' = SelectSeq(JsFiles, HasDigest)
          /\ nonHashedFiles' = SelectSeq(JsFiles, LAMBDA p : ~HasDigest(p))
          /\ tasks' = hashedFiles'
          /\ immediates' = Len(hashedFiles')
          /\ pipe' = [f \in Range(hashedFiles') |-> NewPipe]
          /\ UNCHANGED budget
    /\ UNCHANGED <<fs, workers, drains, rec, thrown, runVars, ops>>

----------------------------------------------------------------------------
\* The queue: async.queue(_.bind(this.enqueue, this), threads), with
\* queue.drain = onQueueDrain

\* a queue built with one slot more than the configured limit
ConcurrencyOffByOne == threads + 1

Concurrency == threads

\* q.process: workers < q.concurrency && q.tasks.length
CanStart(w) == w < Concurrency /\ tasks # <<>>

\* a drain fired as soon as nothing is waiting, with workers still running
DrainedWhenNoneWaiting(w) == Len(tasks) = 0

\* next(): q.drain && q.tasks.length + workers === 0
Drained(w) == Len(tasks) + w = 0

\* a waterfall without its first step: the file is renamed unchecked
StartedAtRename(p, f) == [p EXCEPT ![f].pc = "rename"]

\* enqueue(jsfile, cb) begins: raiseAlreadyProcessedIfSourceMap reads the file
Started(p, f) == [p EXCEPT ![f].pc = "check"]

QueueProcess ==
    /\ Alive
    /\ immediates > 0
    /\ immediates' = immediates - 1
    /\ IF CanStart(workers)
       THEN /\ pipe' = Started(pipe, Head(tasks))
            /\ tasks' = Tail(tasks)
            /\ workers' = workers + 1
       ELSE UNCHANGED <<pipe, tasks, workers>>
    /\ UNCHANGED <<fs, driver, foundVars, drains, rec, thrown, budget, runVars, ops>>

\* enqueue's final callback reports to the queue, whose next() frees the
\* slot, calls drain when nothing is waiting or running, and starts the next
\* task.  p is pipe with the caller's own changes.
QueueNext(p, f, outcome) ==
    LET w1      == workers - 1
        drained == Drained(w1)
        p1      == [p EXCEPT ![f].pc = outcome]
    IN  /\ drains' = IF drained THEN drains + 1 ELSE drains
        /\ rec' = IF drained THEN StartReconciler ELSE rec
        /\ IF CanStart(w1)
           THEN /\ pipe' = Started(p1, Head(tasks))
                /\ tasks' = Tail(tasks)
                /\ workers' = w1 + 1
           ELSE /\ pipe' = p1
                /\ tasks' = tasks
                /\ workers' = w1

\* I/O callbacks run after the q.process calls that push() scheduled
IoReady == Alive /\ immediates = 0

----------------------------------------------------------------------------
\* enqueue(jsfile, cb): the waterfall of one fingerprinted file

\* how enqueue's final callback answers the queue: cb() after the last
\* step ("done"), cb() for an AlreadyProcessedError ("skipped"), cb(err) for
\* any other error ("failed")

\* a final callback without the instanceof test: the marker is an error
AlreadyProcessedAsError == "failed"

AlreadyProcessedOutcome == "skipped"

\* raiseAlreadyProcessedIfSourceMap -> hasSourceMap: fs.readFile answered
CheckDone(f) ==
    /\ IoReady
    /\ pipe[f].pc = "check"
    /\ \/ /\ f \notin DOMAIN fs
          /\ QueueNext(pipe, f, "failed")
          /\ UNCHANGED budget
       \/ /\ CanFail
          /\ budget' = budget - 1
          /\ QueueNext(pipe, f, "failed")
       \/ /\ f \in DOMAIN fs
          /\ ContainsPrefix(fs[f])
          /\ QueueNext(pipe, f, AlreadyProcessedOutcome)
          /\ UNCHANGED budget
       \/ /\ f \in DOMAIN fs
          /\ ~ContainsPrefix(fs[f])
          /\ pipe' = [pipe EXCEPT ![f].pc = "rename"]
          /\ UNCHANGED <<queueVars, rec, budget>>
    /\ UNCHANGED <<fs, driver, foundVars, immediates, thrown, runVars, ops>>

\* fs.rename(jsfile, original, cb) answered; on success the next two steps
\* run: uglify.minify(original, ...), which throws on text it cannot parse,
\* and the step that starts the two writes
RenameDone(f) ==
    /\ IoReady
    /\ pipe[f].pc = "rename"
    /\ \/ /\ CanFail
          /\ budget' = budget - 1
          /\ QueueNext(pipe, f, "failed")
          /\ UNCHANGED <<fs, thrown, ops>>
       \/ /\ fs' = Rename(fs, f, OriginalOf(f))
          /\ UNCHANGED <<queueVars, rec, budget>>
          /\ \E parsed \in ParseOutcomes(fs[f]) :
               IF parsed
               THEN /\ pipe' = [pipe EXCEPT ![f].pc = "write",
                                            ![f].pending = {"code", "map"},
                                            ![f].src = fs[f].src]
                    /\ ops' = ops \cup {<<"rename", f>>, <<"minify", OriginalOf(f)>>}
                    /\ UNCHANGED thrown
               ELSE /\ thrown' = [kind |-> "minify", file |-> f]
                    /\ ops' = ops \cup {<<"rename", f>>}
                    /\ UNCHANGED pipe
    /\ UNCHANGED <<driver, foundVars, immediates, runVars>>

\* the code written to `original` in the place of jsfile
WritePathOntoOriginal(f, which) ==
    IF which = "code" THEN OriginalOf(f) ELSE SourcemapOf(f)

\* fs.writeFile(jsfile, ...) and fs.writeFile(sourcemap, ...)
WritePath(f, which) == IF which = "code" THEN f ELSE SourcemapOf(f)

\* uglified.code (paths rewritten) + sourceMapText, and uglified.map
WriteContent(f, which) ==
    IF which = "code" THEN Minified(pipe[f].src, SourceMapUrl(FullPath(f)))
                      ELSE SourceMap(pipe[f].src, SourceMapUrl(FullPath(f)))

\* the step after the writes: self.gzip(jsfile, gzipped, cb) returns cb()
\* at once when gzip is not set
AfterWrites(p, f) ==
    IF gzip THEN /\ pipe' = [p EXCEPT ![f].pc = "gzip"]
                 /\ UNCHANGED <<queueVars, rec>>
            ELSE QueueNext(p, f, "done")

\* finished() testing flags.code || flags.map: the step answers when the
\* first of the two writes has succeeded
WriteOkAnswersAtFirst(f, which) ==
    /\ IoReady
    /\ which \in pipe[f].pending
    /\ fs' = Put(fs, WritePath(f, which), WriteContent(f, which))
    /\ ops' = ops \cup {<<"write", WritePath(f, which)>>}
    /\ LET p1 == [pipe EXCEPT ![f].pending = @ \ {which},
                              ![f].code = @ \/ which = "code",
                              ![f].map = @ \/ which = "map"]
       IN  IF (p1[f].code \/ p1[f].map) /\ ~p1[f].cb
           THEN AfterWrites([p1 EXCEPT ![f].cb = TRUE, ![f].calls = @ + 1], f)
           ELSE /\ pipe' = p1
                /\ UNCHANGED <<queueVars, rec>>
    /\ UNCHANGED <<driver, foundVars, immediates, thrown, budget, runVars>>

\* finished(which)(null): one of the two fs.writeFile calls succeeded
WriteOk(f, which) ==
    /\ IoReady
    /\ which \in pipe[f].pending
    /\ fs' = Put(fs, WritePath(f, which), WriteContent(f, which))
    /\ ops' = ops \cup {<<"write", WritePath(f, which)>>}
    /\ LET p1 == [pipe EXCEPT ![f].pending = @ \ {which},
                              ![f].code = @ \/ which = "code",
                              ![f].map = @ \/ which = "map"]
       IN  IF p1[f].code /\ p1[f].map /\ ~p1[f].cb
           THEN AfterWrites([p1 EXCEPT ![f].cb = TRUE, ![f].calls = @ + 1], f)
           ELSE /\ pipe' = p1
                /\ UNCHANGED <<queueVars, rec>>
    /\ UNCHANGED <<driver, foundVars, immediates, thrown, budget, runVars>>

\* what calling the waterfall's callback of the write step does when it was
\* called before: async versions differ, the call is dropped or
\* "Callback was already called." is thrown
SecondCallOutcomes == {"dropped", "thrown"}

\* finished(which)(err): one of the two fs.writeFile calls failed; the file
\* is not there, or is there cut short
WriteFail(f, which) ==
    /\ IoReady
    /\ which \in pipe[f].pending
    /\ CanFail
    /\ budget' = budget - 1
    /\ fs' \in {fs, Put(fs, WritePath(f, which), Truncated)}
    /\ ops' = ops \cup {<<"write", WritePath(f, which)>>}
    /\ LET p1 == [pipe EXCEPT ![f].pending = @ \ {which},
                              ![f].cb = TRUE,
                              ![f].calls = @ + 1]
       IN  IF pipe[f].calls = 0
           THEN /\ QueueNext(p1, f, "failed")
                /\ UNCHANGED thrown
           ELSE \E o \in SecondCallOutcomes :
                  /\ pipe' = p1
                  /\ thrown' = IF o = "thrown"
                               THEN [kind |-> "twice", file |-> f]
                               ELSE thrown
                  /\ UNCHANGED <<queueVars, rec>>
    /\ UNCHANGED <<driver, foundVars, immediates, runVars>>

\* self.gzip(jsfile, gzipped, cb) with gzip set: the write stream emitted
\* 'finish', which calls cb; or one of the three streams emitted 'error', for
\* which no listener is registered, so that the event is thrown
GzipDone(f) ==
    /\ IoReady
    /\ pipe[f].pc = "gzip"
    /\ ops' = ops \cup {<<"gzip", GzippedOf(f)>>}
    /\ \/ /\ f \in DOMAIN fs
          /\ fs' = Put(fs, GzippedOf(f), Gzipped(fs[f]))
          /\ QueueNext(pipe, f, "done")
          /\ UNCHANGED <<budget, thrown>>
       \/ /\ CanFail
          /\ budget' = budget - 1
          /\ fs' \in {fs, Put(fs, GzippedOf(f), Truncated)}
          /\ thrown' = [kind |-> "gzip", file |-> f]
          /\ UNCHANGED <<pipe, queueVars, rec>>
    /\ UNCHANGED <<driver, foundVars, immediates, runVars>>

----------------------------------------------------------------------------
\* onQueueDrain -> processNonHashedFiles(cb); its callback throws any error

Throw(kind, file) == thrown' = [kind |-> kind, file |-> file]

CurrentFile == nonHashedFiles[rec.idx]

\* async.forEachSeries over self.nonHashedFiles: the next file's waterfall
\* starts with raiseAlreadyProcessedIfSourceMap; after the last file the
\* final callback logs 'all files have been processed'
LoopFrom(r, i) ==
    IF i > Len(nonHashedFiles)
    THEN [r EXCEPT !.pc = "finished", !.idx = i]
    ELSE [r EXCEPT !.pc = "check", !.idx = i]

\* forEachSeries stops at the first file whose waterfall ends with an error
\* and hands it to processNonHashedFiles' callback, which throws it
LoopError(kind, file) == Throw(kind, file)

OrigFiles == {p \in DOMAIN fs : EndsWith(p, <<OrigTok, JsTok>>)}

\* glob(self.assetsPath + "/**/*.orig.js", cb) answered
RecGlobDone ==
    /\ Alive
    /\ rec.pc = "glob"
    /\ \/ /\ CanFail
          /\ budget' = budget - 1
          /\ Throw("io", <<>>)
          /\ UNCHANGED rec
       \/ /\ rec' = IF OrigFiles = {}
                    THEN LoopFrom(rec, 1)
                    ELSE [rec EXCEPT !.pc = "hash", !.toRead = OrigFiles]
          /\ UNCHANGED <<budget, thrown>>
    /\ UNCHANGED <<fs, driver, foundVars, queueVars, immediates, pipe, runVars, ops>>

\* originalFileContentHash[contents] = file: a later file with the same
\* content replaces the earlier one
Remember(hash, contents, file) ==
    [c \in DOMAIN hash \cup {contents} |-> IF c = contents THEN file ELSE hash[c]]

\* async.each: one of the concurrent fs.readFile calls answered
RecReadOrigDone(p) ==
    /\ Alive
    /\ rec.pc = "hash"
    /\ p \in rec.toRead
    /\ \/ /\ CanFail
          /\ budget' = budget - 1
          /\ Throw("io", p)
          /\ UNCHANGED rec
       \/ /\ p \in DOMAIN fs
          /\ LET r1 == [rec EXCEPT !.hash = Remember(@, fs[p], p),
                                   !.toRead = @ \ {p}]
             IN  rec' = IF r1.toRead = {} THEN LoopFrom(r1, 1) ELSE r1
          /\ UNCHANGED <<budget, thrown>>
    /\ UNCHANGED <<fs, driver, foundVars, queueVars, immediates, pipe, runVars, ops>>

\* raiseAlreadyProcessedIfSourceMap(jsfile, cb) answered; an
\* AlreadyProcessedError lets the loop go on with the next file
RecCheckDone ==
    /\ Alive
    /\ rec.pc = "check"
    /\ \/ /\ CurrentFile \notin DOMAIN fs
          /\ LoopError("io", CurrentFile)
          /\ UNCHANGED <<rec, budget>>
       \/ /\ CanFail
          /\ budget' = budget - 1
          /\ LoopError("io", CurrentFile)
          /\ UNCHANGED rec
       \/ /\ CurrentFile \in DOMAIN fs
          /\ ContainsPrefix(fs[CurrentFile])
          /\ rec' = LoopFrom(rec, rec.idx + 1)
          /\ UNCHANGED <<budget, thrown>>
       \/ /\ CurrentFile \in DOMAIN fs
          /\ ~ContainsPrefix(fs[CurrentFile])
          /\ rec' = [rec EXCEPT !.pc = "read"]
          /\ UNCHANGED <<budget, thrown>>
    /\ UNCHANGED <<fs, driver, foundVars, queueVars, immediates, pipe, runVars, ops>>

\* the rename placed before the lookup: a file without a match is moved to
\* its .orig.js path before the error is raised
RecReadDoneRenamesFirst ==
    /\ Alive
    /\ rec.pc = "read"
    /\ \/ /\ fs[CurrentFile] \in DOMAIN rec.hash
          /\ rec' = [rec EXCEPT !.pc = "rename",
                                !.sourceOrig = rec.hash[fs[CurrentFile]]]
          /\ UNCHANGED <<fs, ops, thrown>>
       \/ /\ fs[CurrentFile] \notin DOMAIN rec.hash
          /\ fs' = Rename(fs, CurrentFile, OriginalOf(CurrentFile))
          /\ ops' = ops \cup {<<"rename", CurrentFile>>}
          /\ LoopError("nomatch", CurrentFile)
          /\ UNCHANGED rec
    /\ UNCHANGED <<driver, foundVars, queueVars, immediates, pipe, runVars, budget>>

\* fs.readFile(jsfile, cb) answered, then the lookup
\* sourceOrig = originalFileContentHash[contents]
RecReadDone ==
    /\ Alive
    /\ rec.pc = "read"
    /\ \/ /\ CanFail
          /\ budget' = budget - 1
          /\ LoopError("io", CurrentFile)
          /\ UNCHANGED rec
       \/ /\ fs[CurrentFile] \in DOMAIN rec.hash
          /\ rec' = [rec EXCEPT !.pc = "rename",
                                !.sourceOrig = rec.hash[fs[CurrentFile]]]
          /\ UNCHANGED <<budget, thrown>>
       \/ /\ fs[CurrentFile] \notin DOMAIN rec.hash
          /\ LoopError("nomatch", CurrentFile)
          /\ UNCHANGED <<rec, budget>>
    /\ UNCHANGED <<fs, driver, foundVars, queueVars, immediates, pipe, runVars, ops>>

\* fs.rename(jsfile, original, cb) answered; then self.copy starts
RecRenameDone ==
    /\ Alive
    /\ rec.pc = "rename"
    /\ \/ /\ CanFail
          /\ budget' = budget - 1
          /\ LoopError("io", CurrentFile)
          /\ UNCHANGED <<rec, fs, ops>>
       \/ /\ fs' = Rename(fs, CurrentFile, OriginalOf(CurrentFile))
          /\ ops' = ops \cup {<<"rename", CurrentFile>>}
          /\ rec' = [rec EXCEPT !.pc = "copy"]
          /\ UNCHANGED <<budget, thrown>>
    /\ UNCHANGED <<driver, foundVars, queueVars, immediates, pipe, runVars>>

\* the step after the copy: without gzip it is cb() at once
AfterCopy(r) ==
    IF gzip THEN [r EXCEPT !.pc = "copygz"] ELSE LoopFrom(r, r.idx + 1)

\* self.copy(sourceOrig.replace('.orig', ''), jsfile, cb): the streams
\* closed or failed; a failed copy may have created the destination
RecCopyDone ==
    /\ Alive
    /\ rec.pc = "copy"
    /\ ops' = ops \cup {<<"copy", CurrentFile>>}
    /\ LET source == CopySourceOf(rec.sourceOrig)
       IN  \/ /\ source \in DOMAIN fs
              /\ fs' = Put(fs, CurrentFile, fs[source])
              /\ rec' = AfterCopy(rec)
              /\ UNCHANGED <<budget, thrown>>
           \/ /\ source \notin DOMAIN fs
              /\ fs' \in {fs, Put(fs, CurrentFile, Truncated)}
              /\ LoopError("io", CurrentFile)
              /\ UNCHANGED <<rec, budget>>
           \/ /\ source \in DOMAIN fs
              /\ CanFail
              /\ budget' = budget - 1
              /\ fs' \in {fs, Put(fs, CurrentFile, Truncated)}
              /\ LoopError("io", CurrentFile)
              /\ UNCHANGED rec
    /\ UNCHANGED <<driver, foundVars, queueVars, immediates, pipe, runVars>>

\* self.copy(sourceOrig.replace('.orig.js', '.js.gz'), gzipped, cb) with
\* gzip set
RecCopyGzDone ==
    /\ Alive
    /\ rec.pc = "copygz"
    /\ ops' = ops \cup {<<"copy", GzippedOf(CurrentFile)>>}
    /\ LET source == GzipSourceOf(rec.sourceOrig)
       IN  \/ /\ source \in DOMAIN fs
              /\ fs' = Put(fs, GzippedOf(CurrentFile), fs[source])
              /\ rec' = LoopFrom(rec, rec.idx + 1)
              /\ UNCHANGED <<budget, thrown>>
           \/ /\ source \notin DOMAIN fs
              /\ fs' \in {fs, Put(fs, GzippedOf(CurrentFile), Truncated)}
              /\ LoopError("io", CurrentFile)
              /\ UNCHANGED <<rec, budget>>
           \/ /\ source \in DOMAIN fs
              /\ CanFail
              /\ budget' = budget - 1
              /\ fs' \in {fs, Put(fs, GzippedOf(CurrentFile), Truncated)}
              /\ LoopError("io", CurrentFile)
              /\ UNCHANGED rec
    /\ UNCHANGED <<driver, foundVars, queueVars, immediates, pipe, runVars>>

----------------------------------------------------------------------------
\* The process ends when nothing is pending; the tool may then be run again

Terminal == {"done", "skipped", "failed"}

Quiescent ==
    \/ ~Alive
    \/ driver \in {"help", "globerr"}
    \/ /\ driver = "pushed"
       /\ immediates = 0
       /\ \A f \in DOMAIN pipe : pipe[f].pc \in Terminal /\ pipe[f].pending = {}
       /\ rec.pc \in {"idle", "finished"}

\* no step of the invocation reported or threw an error
FailureFree ==
    /\ Alive
    /\ driver = "pushed"
    /\ \A f \in DOMAIN pipe : pipe[f].pc \in {"done", "skipped"}

Rerun ==
    /\ Quiescent
    /\ ~rerun
    /\ rerun' = TRUE
    /\ prevClean' = FailureFree
    /\ fs0' = fs
    /\ driver' = "stat"
    /\ hashedFiles' = <<>>
    /\ nonHashedFiles' = <<>>
    /\ tasks' = <<>>
    /\ workers' = 0
    /\ immediates' = 0
    /\ pipe' = NoFiles
    /\ drains' = 0
    /\ rec' = IdleRec
    /\ thrown' = NoError
    /\ ops' = {}
    /\ UNCHANGED <<fs, budget, program, loaded>>

Next ==
    \/ StatDone
    \/ GlobDone
    \/ QueueProcess
    \/ \E f \in DOMAIN pipe : CheckDone(f)
    \/ \E f \in DOMAIN pipe : RenameDone(f)
    \/ \E f \in DOMAIN pipe, which \in {"code", "map"} : WriteOk(f, which)
    \/ \E f \in DOMAIN pipe, which \in {"code", "map"} : WriteFail(f, which)
    \/ RecGlobDone
    \/ \E p \in rec.toRead : RecReadOrigDone(p)
    \/ RecCheckDone
    \/ RecReadDone
    \/ RecRenameDone
    \/ RecCopyDone
    \/ Rerun

Spec == Init /\ [][Next]_vars

\* The two gzip steps run only when the module level gzip is set, which no
\* command line achieves (ModuleLoaded).  To examine the steps themselves,
\* SpecGzipOn starts with the variable holding the parsed option, on a
\* command line without --no-gzip.
InitGzipOn ==
    /\ Scenario
    /\ program.gzip
    /\ loaded = [ModuleLoaded EXCEPT !.gzip = program.gzip]

NextGzipOn ==
    \/ Next
    \/ \E f \in DOMAIN pipe : GzipDone(f)
    \/ RecCopyGzDone

SpecGzipOn == InitGzipOn /\ [][NextGzipOn]_vars

----------------------------------------------------------------------------
\* Properties

\* fingerprinted files whose enqueue() has begun and has not answered the queue
InFlight == {f \in DOMAIN pipe : pipe[f].pc \in {"check", "rename", "write", "gzip"}}

\* every submitted file's enqueue() has answered the queue
AllReturned ==
    /\ driver = "pushed"
    /\ immediates = 0
    /\ \A f \in DOMAIN pipe : pipe[f].pc \in Terminal

SamePath(p) ==
    /\ p \in DOMAIN fs <=> p \in DOMAIN fs0
    /\ p \in DOMAIN fs => fs[p] = fs0[p]

\* no artifact path of asset a was renamed, written or copied to by this
\* invocation, and each holds what it held when the invocation started
Untouched(a) ==
    \A k \in 1..Len(ArtifactsOf(a)) :
       /\ SamePath(ArtifactsOf(a)[k])
       /\ \A o \in ops : o[2] # ArtifactsOf(a)[k]

\* the original kept, the minified file with its marker and the map written
Processed(g) ==
    /\ {g, SourcemapOf(g), OriginalOf(g)} \subseteq DOMAIN fs
    /\ fs[OriginalOf(g)] = fs0[g]
    /\ fs[g] = Minified(fs0[g].src, SourceMapUrl(FullPath(g)))
    /\ fs[SourcemapOf(g)] = SourceMap(fs0[g].src, SourceMapUrl(FullPath(g)))

\* C1: at every moment at most `threads` fingerprinted files are between
\* the start of their enqueue() and its answer to the queue.
C1_ConcurrencyBound == Cardinality(InFlight) <= threads

\* the limit is reached while another file waits
C1_Witness == Cardinality(InFlight) = threads /\ tasks # <<>>

\* C2: once discovery has passed and every submitted file's processor has
\* returned, onQueueDrain has been invoked exactly once, for every set of
\* fingerprinted files, the empty set included; it is never invoked twice.
C2_DrainExactlyOnce == drains <= 1 /\ (AllReturned => drains = 1)

\* C3: processNonHashedFiles does nothing (its first step is the glob for
\* the .orig.js files) before every fingerprinted file pushed to the queue has
\* answered it with success, failure or AlreadyProcessed.
C3_ReconcilerAfterQueue ==
    rec.pc # "idle" =>
        /\ tasks = <<>>
        /\ immediates = 0
        /\ \A f \in Range(hashedFiles) : pipe[f].pc \in Terminal

\* the Reconciler is copying after a fingerprinted file was processed
C3_Witness == rec.pc = "copy" /\ \E f \in DOMAIN pipe : pipe[f].pc = "done"

MinifierFailedOn(f) == fs0[f] = Raw("X") /\ <<"rename", f>> \in ops

\* C5: when the minifier fails on a fingerprinted file, the run still
\* ends with that file reported as failed, every other file answered (and
\* processed when it reported success) and the queue drained once.
C5_MinifierFailureIsolated ==
    \A f \in DOMAIN pipe :
        (Quiescent /\ MinifierFailedOn(f))
        => /\ pipe[f].pc = "failed"
           /\ drains = 1
           /\ \A g \in DOMAIN pipe \ {f} :
                /\ pipe[g].pc \in Terminal
                /\ (pipe[g].pc = "done" /\ Parses(fs0[g])) => Processed(g)

\* C6: once the Reconciler's loop over the non-fingerprinted files has
\* begun, a failure of one file does not leave the loop: the run ends with
\* no uncaught error and with the loop at its end, every file having had
\* its turn.
C6_ReconcilerFailureIsolated ==
    (Quiescent /\ rec.idx >= 1 /\ thrown.kind # "twice")
    => (Alive /\ rec.pc = "finished")

\* the invocation ended with no error anywhere and the Reconciler at its end
EndedWithoutError == Quiescent /\ FailureFree /\ rec.pc = "finished"

\* the content of fingerprinted file h before minification: what its
\* .orig.js holds, or the file itself when it was never renamed
PreMinified(h) ==
    IF OriginalOf(h) \in DOMAIN fs THEN fs[OriginalOf(h)] ELSE fs0[h]

\* C7: after a run without any error, a non-fingerprinted file that
\* started with the pre-minification content of a fingerprinted file holds
\* the final content of such a fingerprinted file, and was not minified
\* itself.
C7_TwinSharesOutput ==
    EndedWithoutError =>
        \A n \in Range(nonHashedFiles) :
            (\E h \in Range(hashedFiles) : PreMinified(h) = fs0[n])
            => /\ \E h \in Range(hashedFiles) :
                    /\ PreMinified(h) = fs0[n]
                    /\ {n, h} \subseteq DOMAIN fs
                    /\ fs[n] = fs[h]
               /\ <<"minify", OriginalOf(n)>> \notin ops

\* the non-fingerprinted files whose lookup is behind them
PastLookup ==
    {nonHashedFiles[k] : k \in {j \in 1..Len(nonHashedFiles) :
        \/ j < rec.idx
        \/ j = rec.idx /\ rec.pc \in {"rename", "copy"}}}

\* C8: a non-fingerprinted file whose content is not a key of the Content
\* Matcher does not get past the lookup; the error raised names it, and
\* none of its paths (the file, .orig.js, .js.map, .js.gz) was renamed,
\* written or created.
C8_NoMatchLeavesFileAlone ==
    /\ thrown.kind = "nomatch" =>
          /\ thrown.file = CurrentFile
          /\ fs0[CurrentFile] \notin DOMAIN rec.hash
          /\ Untouched(CurrentFile)
    /\ \A n \in PastLookup :
          ~ContainsPrefix(fs0[n]) => fs0[n] \in DOMAIN rec.hash

\* a file without a match was reported while the Matcher was not empty
C8_Witness == thrown.kind = "nomatch" /\ DOMAIN rec.hash # {}

\* C9: in a second invocation on what a failure free first one left, no
\* file changes and nothing is renamed, minified, written or copied; when
\* it ends without a failure of its own, every fingerprinted file found
\* was skipped as already processed and the Reconciler went through every
\* non-fingerprinted file.
C9_SecondRunIsNoOp ==
    (rerun /\ prevClean) =>
        /\ fs = fs0
        /\ ops = {}
        /\ (Quiescent /\ FailureFree) =>
              /\ \A f \in DOMAIN pipe : pipe[f].pc = "skipped"
              /\ nonHashedFiles # <<>> => rec.pc = "finished"

\* a step in which the marker check of fingerprinted file f answers for a
\* file that holds the marker
QueueCheckAnswers(f) ==
    /\ Alive
    /\ pipe[f].pc = "check"
    /\ f \in DOMAIN fs
    /\ ContainsPrefix(fs[f])
    /\ budget' = budget
    /\ f \in DOMAIN pipe'
    /\ pipe'[f].pc # "check"

\* the same for the Reconciler's current file
RecCheckAnswers ==
    /\ Alive
    /\ rec.pc = "check"
    /\ CurrentFile \in DOMAIN fs
    /\ ContainsPrefix(fs[CurrentFile])
    /\ budget' = budget
    /\ rec' # rec

KeepsArtifacts(a) ==
    \A k \in 1..Len(ArtifactsOf(a)) :
       LET p == ArtifactsOf(a)[k]
       IN  /\ p \in DOMAIN fs' <=> p \in DOMAIN fs
           /\ p \in DOMAIN fs => fs'[p] = fs[p]

\* C10: when the marker check finds the marker, the file's pipeline ends
\* with success (the queue is answered "skipped", the Reconciler goes on to
\* the next file with no error thrown) in a step that changes no file and
\* performs no operation; and no later step of the invocation changes a
\* path of a skipped fingerprinted file.
C10_AlreadyProcessedIsSilentSuccess ==
    [][/\ \A f \in DOMAIN pipe :
            QueueCheckAnswers(f) =>
                (pipe'[f].pc = "skipped" /\ fs' = fs /\ ops' = ops)
       /\ RecCheckAnswers =>
            (thrown' = NoError /\ rec'.idx = rec.idx + 1 /\ fs' = fs /\ ops' = ops)
       /\ \A f \in DOMAIN pipe :
            pipe[f].pc = "skipped" => KeepsArtifacts(f)]_vars

\* a fingerprinted and a non-fingerprinted file were both skipped
C10_Witness ==
    /\ \E f \in DOMAIN pipe : pipe[f].pc = "skipped" /\ Untouched(f)
    /\ rec.pc = "finished"
    /\ \E k \in 1..Len(nonHashedFiles) :
          ContainsPrefix(fs0[nonHashedFiles[k]]) /\ Untouched(nonHashedFiles[k])

\* C11: on a command line without --no-gzip, every fingerprinted file whose
\* pipeline answered the queue with success has a .js.gz sibling that holds
\* the compressed form of its minified file.
C11_GzipSiblingWritten ==
    \A f \in DOMAIN pipe :
        (program.gzip /\ pipe[f].pc = "done")
        => /\ {f, GzippedOf(f)} \subseteq DOMAIN fs
           /\ fs[GzippedOf(f)] = Gzipped(fs[f])

\* the limit the command line asks for
RequestedThreads ==
    IF program.threads = Undefined THEN DefaultThreads ELSE ToNumber(program.threads)

\* C12: the Work Queue never has more fingerprinted files in their pipelines
\* than the value given with --threads, or than 3 when the option is not
\* given.
C12_LimitFollowsThreadsOption == Cardinality(InFlight) <= RequestedThreads

\* the asset files the glob of this invocation found
Discovered == Range(hashedFiles) \cup Range(nonHashedFiles)

\* the invocation ran to its end: every fingerprinted file answered the
\* queue, the Reconciler went through its list, nothing was thrown
RanToEnd == Alive /\ Quiescent /\ driver = "pushed" /\ rec.pc = "finished"

\* C13 as claimed: when the run has finished, every asset path discovered at
\* its start still holds a file, whatever the outcome of the file's pipeline.
C13_AssetPathsKeepFile ==
    RanToEnd => \A a \in Discovered : a \in DOMAIN fs

\* C13 as amended: no discovered asset is lost.  Each is still there under
\* its own path or under its .orig.js path, and under its own path when its
\* pipeline succeeded or was skipped as already processed.
C13_AssetsKeptUnderEitherName ==
    driver = "pushed" =>
        /\ \A a \in Discovered : a \in DOMAIN fs \/ OriginalOf(a) \in DOMAIN fs
        /\ \A f \in DOMAIN pipe : pipe[f].pc \in {"done", "skipped"} => f \in DOMAIN fs
        /\ \A k \in 1..Len(nonHashedFiles) : k < rec.idx => nonHashedFiles[k] \in DOMAIN fs

\* a run that finished with a failed file that is left under its .orig.js
\* path only, next to a file that succeeded
C13_Witness ==
    /\ RanToEnd
    /\ \E f \in DOMAIN pipe :
          pipe[f].pc = "failed" /\ f \notin DOMAIN fs /\ OriginalOf(f) \in DOMAIN fs
    /\ \E g \in DOMAIN pipe : pipe[g].pc = "done"

\* the absolute site path of f's source map: what follows public/
SitePathOfMap(f) == <<RootTok>> \o SourcemapOf(f)

\* C14: for every project root, the content of a fingerprinted file whose
\* pipeline succeeded is minified code that ends with the marker, and the
\* marker's URL is the site path of the file's source map, without public/.
C14_MarkerHoldsSitePath ==
    \A f \in DOMAIN pipe :
        pipe[f].pc = "done"
        => /\ f \in DOMAIN fs
           /\ fs[f].form = "min"
           /\ fs[f].url = SitePathOfMap(f)
           /\ \A k \in 1..Len(fs[f].url) : fs[f].url[k] # PublicTok

\* the compression of f was run and did not produce the compressed file
GzipFailedOn(f) ==
    /\ <<"gzip", GzippedOf(f)>> \in ops
    /\ GzippedOf(f) \notin DOMAIN fs \/ fs[GzippedOf(f)].form # "gz"

StepOrder ==
    {<<"queued", "check">>,
     <<"check", "rename">>, <<"check", "skipped">>, <<"check", "failed">>,
     <<"rename", "write">>, <<"rename", "failed">>,
     <<"write", "gzip">>, <<"write", "done">>, <<"write", "failed">>,
     <<"gzip", "done">>}

NewOps == ops' \ ops

\* C16: a pipeline moves from step to step in the order check, rename,
\* minify and rewrite, write, gzip.  The rename is performed only while the
\* pipeline is at the rename step, the minification only behind the rename,
\* the writes are started only behind the minification and the gzip call is
\* made only when both writes are done; once a step has failed, the pipeline
\* stays failed and starts no write, minification, rename or compression.
C16_StepsInOrder ==
    [][\A f \in DOMAIN pipe \cap DOMAIN pipe' :
         /\ pipe'[f].pc # pipe[f].pc => <<pipe[f].pc, pipe'[f].pc>> \in StepOrder
         /\ <<"rename", f>> \in NewOps => pipe[f].pc = "rename"
         /\ <<"minify", OriginalOf(f)>> \in NewOps => <<"rename", f>> \in ops'
         /\ (pipe'[f].pending \ pipe[f].pending # {}) =>
               /\ pipe[f].pc = "rename"
               /\ <<"minify", OriginalOf(f)>> \in ops'
         /\ (pipe'[f].pc \in {"gzip", "done"} /\ pipe[f].pc = "write") =>
               /\ {<<"write", f>>, <<"write", SourcemapOf(f)>>} \subseteq ops'
               /\ pipe'[f].pending = {}
         /\ <<"gzip", GzippedOf(f)>> \in NewOps => pipe[f].pc = "gzip"
         /\ pipe[f].pc = "failed" =>
               /\ pipe'[f].pc = "failed"
               /\ pipe'[f].pending \subseteq pipe[f].pending
               /\ NewOps \cap {<<"rename", f>>, <<"minify", OriginalOf(f)>>,
                               <<"gzip", GzippedOf(f)>>} = {}
      ]_vars

\* one file went through every step while another failed behind its rename
C16_Witness ==
    /\ \E f \in DOMAIN pipe :
          /\ pipe[f].pc = "done"
          /\ {<<"rename", f>>, <<"minify", OriginalOf(f)>>, <<"write", f>>,
              <<"write", SourcemapOf(f)>>} \subseteq ops
    /\ \E g \in DOMAIN pipe : pipe[g].pc = "failed" /\ <<"rename", g>> \in ops

\* both outputs of f are on disk as the write step wrote them
BothWritten(f) ==
    /\ {<<"write", f>>, <<"write", SourcemapOf(f)>>} \subseteq ops
    /\ {f, SourcemapOf(f)} \subseteq DOMAIN fs
    /\ fs[f].form = "min"
    /\ fs[SourcemapOf(f)].form = "map"

\* the write of f's code or map has answered, and with an error
WriteFailed(f, which) ==
    /\ <<"write", WritePath(f, which)>> \in ops
    /\ which \notin pipe[f].pending
    /\ ~(IF which = "code" THEN pipe[f].code ELSE pipe[f].map)

\* C17: a pipeline is past its write step (at the gzip call or answered
\* with success) only when both writes have succeeded and none is pending;
\* and as soon as one of the two writes has failed the file is reported as
\* failed.
C17_WriteStepWaitsForBoth ==
    \A f \in DOMAIN pipe :
        /\ pipe[f].pc \in {"gzip", "done"} =>
              (BothWritten(f) /\ pipe[f].pending = {} /\ pipe[f].code /\ pipe[f].map)
        /\ (\E which \in {"code", "map"} : WriteFailed(f, which)) =>
              pipe[f].pc = "failed"

\* one file succeeded with both writes, another failed with the code
\* written and the map not
C17_Witness ==
    /\ \E f \in DOMAIN pipe : pipe[f].pc = "done" /\ BothWritten(f)
    /\ \E g \in DOMAIN pipe :
          pipe[g].pc = "failed" /\ pipe[g].code /\ WriteFailed(g, "map")

\* the paths on which the enqueue() of fingerprinted file f has a read, a
\* rename, a write or a stream in flight
PipeBusy(f) ==
    (IF pipe[f].pc = "check" THEN {f} ELSE {})
    \cup (IF pipe[f].pc = "rename" THEN {f, OriginalOf(f)} ELSE {})
    \cup {WritePath(f, which) : which \in pipe[f].pending}
    \cup (IF pipe[f].pc = "gzip" THEN {f, GzippedOf(f)} ELSE {})

\* the same for the Reconciler, which handles one non-fingerprinted file at
\* a time
RecBusy ==
    CASE rec.pc = "hash"              -> rec.toRead
      [] rec.pc \in {"check", "read"} -> {CurrentFile}
      [] rec.pc = "rename"            -> {CurrentFile, OriginalOf(CurrentFile)}
      [] rec.pc = "copy"              -> {CopySourceOf(rec.sourceOrig), CurrentFile}
      [] rec.pc = "copygz"            -> {GzipSourceOf(rec.sourceOrig),
                                          GzippedOf(CurrentFile)}
      [] OTHER                        -> {}

\* C18: while the process runs, no path has I/O in flight from two
\* invocations (the pipelines of two fingerprinted files, or a pipeline and
\* the Reconciler); no file is in both sets, none is listed twice, and the
\* artifact paths of different discovered files differ.
C18_ExclusiveOwnership ==
    Alive =>
        /\ \A f, g \in DOMAIN pipe : f # g => PipeBusy(f) \cap PipeBusy(g) = {}
        /\ \A f \in DOMAIN pipe : PipeBusy(f) \cap RecBusy = {}
        /\ Range(hashedFiles) \cap Range(nonHashedFiles) = {}
        /\ Cardinality(Discovered) = Len(hashedFiles) + Len(nonHashedFiles)
        /\ \A a, b \in Discovered :
              a # b => Range(ArtifactsOf(a)) \cap Range(ArtifactsOf(b)) = {}

\* C19: from the rename of a discovered file on, and to the end of the
\* invocation, its .orig.js path holds the content the file had when the
\* invocation started, whatever happens to the file's later steps.
C19_OriginalPreserved ==
    \A a \in Discovered :
        <<"rename", a>> \in ops
        => /\ OriginalOf(a) \in DOMAIN fs
           /\ fs[OriginalOf(a)] = fs0[a]

\* a fingerprinted file failed behind its rename, and the Reconciler
\* renamed a non-fingerprinted file
C19_Witness ==
    /\ \E f \in DOMAIN pipe : pipe[f].pc = "failed" /\ <<"rename", f>> \in ops
    /\ \E n \in Range(nonHashedFiles) : <<"rename", n>> \in ops

\* C20: whatever the outcomes of the two writes and the order of their
\* answers, the write step calls the waterfall's callback at most once for
\* a file.
C20_WriteStepCallsBackOnce == \A f \in DOMAIN pipe : pipe[f].calls <= 1

====
